---- MODULE Spec2Model ----
(***************************************************************************)
(* Model of the configuration orchestration core of DSC:                  *)
(* dsc_lib/src/configure/mod.rs (Configurator, the two property walkers,   *)
(* set_parameters and the four invoke operations).                         *)
(*                                                                         *)
(* JSON values (serde_json::Value) are tagged records [t, v].  A string is *)
(* a sequence of text chunks; the chunks "[" and "]" are the two bracket   *)
(* characters and no other chunk begins or ends with a bracket.            *)
(***************************************************************************)
EXTENDS Integers, Sequences, FiniteSets, TLC

\* ------------------------------------------------------------------------
\* Bounds of the model
\* ------------------------------------------------------------------------
MaxResources == 3
MaxInstances == 2
MaxInputs == 2
MaxArray == 2

\* ------------------------------------------------------------------------
\* serde_json::Value, Option and Result
\* ------------------------------------------------------------------------
JNull == [t |-> "null", v |-> 0]
JBool(b) == [t |-> "bool", v |-> b]
JInt(n) == [t |-> "int", v |-> n]
JFloat(tenths) == [t |-> "float", v |-> tenths]
JStr(s) == [t |-> "str", v |-> s]
JArr(a) == [t |-> "arr", v |-> a]
JObj(m) == [t |-> "obj", v |-> m]

NoneV == [some |-> FALSE]
Some(x) == [some |-> TRUE, val |-> x]

Ok(x) == [ok |-> TRUE, val |-> x]
Err(e) == [ok |-> FALSE, err |-> e]

\* DscError: the variant and its message, the message a sequence of parts
DscError(kind, msg) == [kind |-> kind, msg |-> msg]

\* serde_json's Map in the default build is a BTreeMap: the keys in sorted order
SortedOrder == <<"cmd", "list", "p", "q">>

\* serde_json's Map under the feature preserve_order is an IndexMap: the keys
\* in the order they were inserted, which for a parsed document is the order
\* they are written in, and for a walker's result the order of the walk.
\* The documents and the providers' instances are written in these orders.
WrittenOrders == {<<"q", "p", "list", "cmd">>}

\* the iteration orders a build can give a Map: which one it has is decided
\* by the features the manifest selects for serde_json
KeyOrders == {SortedOrder} \cup WrittenOrders

VARIABLE
    key_order     \* the order in which this build iterates the keys of a Map

\* `for (name, value) in properties`: the keys of a Map as the loop meets them
MapKeys(m) == SelectSeq(key_order, LAMBDA k : k \in DOMAIN m)

\* serde_json::to_value of an Option<Map<String, Value>>
to_value(opt) == IF opt.some THEN JObj(opt.val) ELSE JNull

\* str::starts_with('[') && str::ends_with(']')
starts_with_bracket(statement) == statement # <<>> /\ statement[1] = "["

ends_with_bracket(statement) == statement # <<>> /\ statement[Len(statement)] = "]"

IsBracketed(statement) == starts_with_bracket(statement) /\ ends_with_bracket(statement)

NestedArrays == DscError("Parser", <<"Nested arrays not supported">>)

\* ------------------------------------------------------------------------
\* Escape mode of the property walker
\* ------------------------------------------------------------------------
\* escape_string, had it looked at the first character only
escape_string_prefix_only(statement) ==
    IF starts_with_bracket(statement) THEN <<"[">> \o statement ELSE statement

\* escape_string, had it left alone what already begins with "[["
escape_string_once(statement) ==
    IF starts_with_bracket(statement) /\ ends_with_bracket(statement)
       /\ ~(Len(statement) >= 2 /\ statement[2] = "[")
    THEN <<"[">> \o statement
    ELSE statement

\* the string arm: format!("[{statement}") for a bracketed string
escape_string(statement) ==
    IF starts_with_bracket(statement) /\ ends_with_bracket(statement)
    THEN <<"[">> \o statement
    ELSE statement

RECURSIVE escape_property_values(_)
RECURSIVE escape_array(_, _, _)
RECURSIVE escape_entries(_, _, _)

\* escape_array, had an array inside an array been copied like a scalar
RECURSIVE escape_array_flat(_, _, _)
escape_array_flat(array, i, result_array) ==
    IF i > Len(array) THEN Ok(result_array)
    ELSE LET element == array[i] IN
         CASE element.t = "obj" ->
                LET value == escape_property_values(element.v) IN
                IF value.ok
                THEN escape_array_flat(array, i + 1, Append(result_array, to_value(value.val)))
                ELSE value
           [] element.t = "str" ->
                escape_array_flat(array, i + 1,
                                  Append(result_array, JStr(escape_string(element.v))))
           [] OTHER -> escape_array_flat(array, i + 1, Append(result_array, element))

\* the loop over the elements of an array value
escape_array(array, i, result_array) ==
    IF i > Len(array) THEN Ok(result_array)
    ELSE LET element == array[i] IN
         CASE element.t = "obj" ->
                LET value == escape_property_values(element.v) IN
                IF value.ok
                THEN escape_array(array, i + 1, Append(result_array, to_value(value.val)))
                ELSE value
           [] element.t = "arr" -> Err(NestedArrays)
           [] element.t = "str" ->
                escape_array(array, i + 1, Append(result_array, JStr(escape_string(element.v))))
           [] OTHER -> escape_array(array, i + 1, Append(result_array, element))

\* the loop over the (name, value) pairs of a mapping
escape_entries(properties, names, result) ==
    IF names = <<>> THEN Ok(Some(result))
    ELSE LET name == Head(names)
             value == properties[name]
             Insert(x) == [k \in DOMAIN result \cup {name} |-> IF k = name THEN x ELSE result[k]]
         IN
         CASE value.t = "obj" ->
                LET inner == escape_property_values(value.v) IN
                IF inner.ok
                THEN escape_entries(properties, Tail(names), Insert(to_value(inner.val)))
                ELSE inner
           [] value.t = "arr" ->
                LET result_array == escape_array(value.v, 1, <<>>) IN
                IF result_array.ok
                THEN escape_entries(properties, Tail(names), Insert(JArr(result_array.val)))
                ELSE result_array
           [] value.t = "str" ->
                escape_entries(properties, Tail(names), Insert(JStr(escape_string(value.v))))
           [] OTHER -> escape_entries(properties, Tail(names), Insert(value))

escape_property_values(properties) ==
    escape_entries(properties, MapKeys(properties), <<>>)

\* ------------------------------------------------------------------------
\* Evaluate mode of the property walker
\* ------------------------------------------------------------------------
ExpressionError == DscError("Parser", <<"expression failed">>)

\* What Statement::parse_and_execute may return for a statement: the engine
\* is external, so every outcome of its contract (a string or an error) is
\* possible for every text it is handed.
EngineOutcomes(statement) == {Err(ExpressionError), Ok(<<"value">>), Ok(statement)}

\* the string values of a property tree, the texts an engine may be asked about
RECURSIVE StringsOf(_)
StringsOf(value) ==
    CASE value.t = "str" -> {value.v}
      [] value.t = "arr" -> UNION {StringsOf(value.v[i]) : i \in DOMAIN value.v}
      [] value.t = "obj" -> UNION {StringsOf(value.v[k]) : k \in DOMAIN value.v}
      [] OTHER -> {}

\* the engines of one evaluation: a pure function of the text (the context
\* does not change while one property bag is walked)
Engines(properties) ==
    LET texts == StringsOf(to_value(properties)) IN
    {e \in [texts -> UNION {EngineOutcomes(s) : s \in texts}] :
        \A s \in texts : e[s] \in EngineOutcomes(s)}

\* The walker's outcome: res is the Result it returns, passed the texts it
\* handed to the engine, in call order.
Walked(res, passed) == [res |-> res, passed |-> passed]

\* the string arm: the text goes to parse_and_execute whatever its shape
evaluate_string(statement, engine, passed) ==
    Walked(engine[statement], Append(passed, statement))

RECURSIVE invoke_property_expressions(_, _, _)
RECURSIVE evaluate_array(_, _, _, _, _)
RECURSIVE evaluate_entries(_, _, _, _, _)

\* the loop over the elements of an array value
evaluate_array(array, i, result_array, engine, passed) ==
    IF i > Len(array) THEN Walked(Ok(result_array), passed)
    ELSE LET element == array[i] IN
         CASE element.t = "obj" ->
                LET value == invoke_property_expressions(Some(element.v), engine, passed) IN
                IF value.res.ok
                THEN evaluate_array(array, i + 1,
                                    Append(result_array, to_value(value.res.val)),
                                    engine, value.passed)
                ELSE value
           [] element.t = "arr" -> Walked(Err(NestedArrays), passed)
           [] element.t = "str" ->
                LET statement_result == evaluate_string(element.v, engine, passed) IN
                IF statement_result.res.ok
                THEN evaluate_array(array, i + 1,
                                    Append(result_array, JStr(statement_result.res.val)),
                                    engine, statement_result.passed)
                ELSE statement_result
           [] OTHER -> evaluate_array(array, i + 1, Append(result_array, element),
                                      engine, passed)

\* the loop over the (name, value) pairs of a mapping
evaluate_entries(properties, names, result, engine, passed) ==
    IF names = <<>> THEN Walked(Ok(Some(result)), passed)
    ELSE LET name == Head(names)
             value == properties[name]
             Insert(x) == [k \in DOMAIN result \cup {name} |-> IF k = name THEN x ELSE result[k]]
         IN
         CASE value.t = "obj" ->
                LET inner == invoke_property_expressions(Some(value.v), engine, passed) IN
                IF inner.res.ok
                THEN evaluate_entries(properties, Tail(names),
                                      Insert(to_value(inner.res.val)), engine, inner.passed)
                ELSE inner
           [] value.t = "arr" ->
                LET result_array == evaluate_array(value.v, 1, <<>>, engine, passed) IN
                IF result_array.res.ok
                THEN evaluate_entries(properties, Tail(names),
                                      Insert(JArr(result_array.res.val)), engine,
                                      result_array.passed)
                ELSE result_array
           [] value.t = "str" ->
                LET statement_result == evaluate_string(value.v, engine, passed) IN
                IF statement_result.res.ok
                THEN evaluate_entries(properties, Tail(names),
                                      Insert(JStr(statement_result.res.val)), engine,
                                      statement_result.passed)
                ELSE statement_result
           [] OTHER -> evaluate_entries(properties, Tail(names), Insert(value),
                                        engine, passed)

invoke_property_expressions(properties, engine, passed) ==
    IF ~properties.some THEN Walked(Ok(NoneV), passed)
    ELSE evaluate_entries(properties.val, MapKeys(properties.val), <<>>, engine, passed)

\* ------------------------------------------------------------------------
\* serde_json::to_string: the JSON text of a value, as a sequence of tokens
\* ------------------------------------------------------------------------
RECURSIVE to_string(_)
RECURSIVE to_string_items(_, _)
RECURSIVE to_string_members(_, _)

to_string_items(array, i) ==
    IF i > Len(array) THEN <<>>
    ELSE (IF i > 1 THEN <<",">> ELSE <<>>) \o to_string(array[i]) \o to_string_items(array, i + 1)

to_string_members(map, names) ==
    IF names = <<>> THEN <<>>
    ELSE <<"\"", Head(names), "\"", ":">> \o to_string(map[Head(names)])
         \o (IF Tail(names) = <<>> THEN <<>> ELSE <<",">>)
         \o to_string_members(map, Tail(names))

to_string(value) ==
    CASE value.t = "null" -> <<"null">>
      [] value.t = "bool" -> IF value.v THEN <<"true">> ELSE <<"false">>
      [] value.t = "int" -> <<ToString(value.v)>>
      [] value.t = "float" -> <<ToString(value.v \div 10), ".", ToString(value.v % 10)>>
      [] value.t = "str" -> <<"\"">> \o value.v \o <<"\"">>
      [] value.t = "arr" -> <<"[">> \o to_string_items(value.v, 1) \o <<"]">>
      [] value.t = "obj" -> <<"{">> \o to_string_members(value.v, MapKeys(value.v)) \o <<"}">>

\* ------------------------------------------------------------------------
\* Configuration documents
\* ------------------------------------------------------------------------
\* str::to_lowercase on the resource types of the model
to_lowercase(resource_type) ==
    CASE resource_type = "Test/Echo" -> "test/echo"
      [] resource_type = "Test/File" -> "test/file"
      [] resource_type = "Test/Missing" -> "test/missing"
      [] OTHER -> resource_type

\* config_doc::Resource
Resource(name, resource_type, properties, depends_on) ==
    [name |-> name, resource_type |-> resource_type,
     properties |-> properties, depends_on |-> depends_on]

\* config_doc::Parameter: a declaration with its optional constraints
Parameter(parameter_type, default_value, min_length, max_length, min_value, max_value, allowed_values) ==
    [parameter_type |-> parameter_type, default_value |-> default_value,
     min_length |-> min_length, max_length |-> max_length,
     min_value |-> min_value, max_value |-> max_value,
     allowed_values |-> allowed_values]

\* config_doc::Configuration
Configuration(parameters, resources) == [parameters |-> parameters, resources |-> resources]

Reference(name) == <<"[", "reference(", name, ")", "]">>

\* the resources configurations are built from
ResourcePool ==
    { Resource("A", "Test/Echo", Some([p |-> JStr(<<"[", "x", "]">>)]), <<"B">>),
      Resource("B", "Test/File",
               Some([p |-> JObj([cmd |-> JBool(TRUE), list |-> JArr(<<JNull, JFloat(15)>>)]),
                     q |-> JInt(1)]),
               <<>>),
      Resource("C", "test/echo",
               Some([cmd |-> JStr(<<"y">>),
                     list |-> JArr(<<JStr(<<"[", "[", "x", "]">>), JInt(1),
                                     JObj([q |-> JStr(<<"y">>)])>>)]),
               <<"A", "B">>),
      Resource("X", "Test/Echo",
               Some([p |-> JStr(Reference("B")), q |-> JStr(<<"literal">>)]), <<>>),
      Resource("N", "Test/File", Some([list |-> JArr(<<JArr(<<JInt(1)>>)>>)]), <<>>),
      Resource("M", "Test/Missing", NoneV, <<>>) }

RECURSIVE SeqsOver(_, _)
SeqsOver(S, n) ==
    IF n = 0 THEN {<<>>}
    ELSE LET shorter == SeqsOver(S, n - 1) IN
         shorter \cup {Append(q, x) : q \in {r \in shorter : Len(r) = n - 1}, x \in S}

DistinctNames(resources) ==
    \A i, j \in DOMAIN resources : resources[i].name = resources[j].name => i = j

\* documents without parameter declarations
ResourceConfigs ==
    {Configuration(NoneV, resources) :
        resources \in {q \in SeqsOver(ResourcePool, MaxResources) : DistinctNames(q)}}

\* documents in which two resource types occur twice each
DuplicateConfigs ==
    LET named(n) == CHOOSE r \in ResourcePool : r.name = n IN
    { Configuration(NoneV, <<named("A"), named("B"), named("X"), named("N")>>),
      Configuration(NoneV, <<named("N"), named("X"), named("B"), named("A")>>) }

\* documents whose dependencies form a cycle: a resource depending on
\* itself, two and three resources depending on each other in a ring, and
\* a ring closed by a reference(..) expression
CyclicConfigs ==
    LET plain(name, depends_on) == Resource(name, "Test/Echo", NoneV, depends_on)
        named(n) == CHOOSE r \in ResourcePool : r.name = n
        S == plain("S", <<"S">>)
        P == plain("P", <<"Q">>)
        Q == plain("Q", <<"P">>)
        U == plain("U", <<"B", "W">>)
        V == plain("V", <<"U">>)
        W == plain("W", <<"V">>)
        R == Resource("R", "Test/File", Some([p |-> JStr(Reference("T"))]), <<>>)
        T == plain("T", <<"R">>)
    IN { Configuration(NoneV, <<S>>), Configuration(NoneV, <<named("B"), S>>),
         Configuration(NoneV, <<P, Q>>), Configuration(NoneV, <<named("B"), Q, P>>),
         Configuration(NoneV, <<named("B"), U, V, W>>),
         Configuration(NoneV, <<R, T>>), Configuration(NoneV, <<T, named("B"), R>>) }

\* documents in which two resources are ready at once: D, which depends on
\* nothing and on which nothing depends, stands between A and the B that A
\* depends on, or last
TieConfigs ==
    LET named(n) == CHOOSE r \in ResourcePool : r.name = n
        D == Resource("D", "Test/File", NoneV, <<>>)
    IN { Configuration(NoneV, <<named("A"), D, named("B")>>),
         Configuration(NoneV, <<named("A"), named("B"), D>>) }

NoLimit == NoneV

\* the parameter declarations documents are built from
ModeParameter ==
    Parameter("string", Some(JStr(<<"a">>)), NoLimit, NoLimit, NoLimit, NoLimit,
              Some(<<JStr(<<"a">>), JStr(<<"b">>)>>))

CountParameter ==
    Parameter("int", NoneV, NoLimit, NoLimit, Some(1), Some(10), NoneV)

TagParameter ==
    Parameter("secureString", Some(JStr(<<"x">>)), Some(1), Some(2), NoLimit, NoLimit, NoneV)

ListParameter ==
    Parameter("array", Some(JArr(<<>>)), NoLimit, Some(1), NoLimit, NoLimit, NoneV)

FlagParameter ==
    Parameter("bool", NoneV, NoLimit, NoLimit, NoLimit, NoLimit, NoneV)

BagParameter ==
    Parameter("object", Some(JObj(<<>>)), NoLimit, NoLimit, NoLimit, NoLimit, NoneV)

SecretParameter ==
    Parameter("secureObject", NoneV, NoLimit, NoLimit, NoLimit, NoLimit, NoneV)

SizeParameter ==
    Parameter("int", Some(JInt(3)), NoLimit, NoLimit, NoLimit, NoLimit, NoneV)

Declarations ==
    { <<>>,
      [mode |-> ModeParameter, count |-> CountParameter],
      [tag |-> TagParameter], [list |-> ListParameter], [flag |-> FlagParameter],
      [bag |-> BagParameter], [secret |-> SecretParameter], [size |-> SizeParameter] }

\* the documents set_parameters is studied on: with each of the
\* declarations, and without a parameters section
ParameterConfigs ==
    LET resources == <<Resource("E", "Test/Echo", NoneV, <<>>)>> IN
    {Configuration(NoneV, resources)}
    \cup {Configuration(Some(d), resources) : d \in Declarations}

\* the values a caller passes for a parameter
ParameterValues ==
    { JStr(<<"b">>), JStr(<<"a", "b", "c">>), JInt(5), JInt(11), JBool(TRUE),
      JArr(<<JInt(1)>>), JObj([p |-> JInt(1)]) }

\* ... for a parameter of a document that declares several: the scalars
ScalarValues == {value \in ParameterValues : value.t \notin {"arr", "obj"}}

\* a parameter name no document declares
Undeclared == "zz"

\* the parameter inputs a caller may pass with a document: none, a value
\* that is no parameters file, or values for up to MaxInputs names
Inputs(cfg) ==
    LET names == (IF cfg.parameters.some THEN DOMAIN cfg.parameters.val ELSE {})
                 \cup {Undeclared}
        values == IF ~cfg.parameters.some THEN {JInt(5)}
                  ELSE IF Cardinality(DOMAIN cfg.parameters.val) > 1 THEN ScalarValues
                  ELSE ParameterValues
        chosen == {S \in SUBSET names : Cardinality(S) <= MaxInputs}
    IN {NoneV, Some(JStr(<<"b">>))}
       \cup {Some(JObj([parameters |-> JObj(m)])) :
                m \in UNION {[S -> values] : S \in chosen}}

\* ------------------------------------------------------------------------
\* Collaborators of the Configurator: dependency resolver, discovery,
\* resource providers, constraint checks
\* ------------------------------------------------------------------------
Validation(msg) == DscError("Validation", msg)

\* the names the expressions of a property bag refer to with reference(..)
ReferencedNames(properties) ==
    {s[3] : s \in {r \in StringsOf(to_value(properties)) :
                      Len(r) = 5 /\ IsBracketed(r) /\ r[2] = "reference(" /\ r[4] = ")"}}

IndexOfName(resources, name) ==
    IF \E i \in DOMAIN resources : resources[i].name = name
    THEN CHOOSE i \in DOMAIN resources : resources[i].name = name
    ELSE 0

\* predecessors of a resource: the names of its dependsOn and the names its
\* expressions refer to with reference(..)
PredecessorNames(resource) ==
    {resource.depends_on[i] : i \in DOMAIN resource.depends_on}
    \cup ReferencedNames(resource.properties)

\* the names reached from a set of names along the predecessor edges
RECURSIVE ReachedFrom(_, _)
ReachedFrom(resources, names) ==
    LET known == {i \in DOMAIN resources : resources[i].name \in names}
        next == names \cup UNION {PredecessorNames(resources[i]) : i \in known}
    IN IF next = names THEN names ELSE ReachedFrom(resources, next)

\* the participants of the cycles, in document order
CycleParticipants(resources) ==
    SelectSeq([i \in DOMAIN resources |-> resources[i].name],
              LAMBDA n : n \in ReachedFrom(resources,
                                            PredecessorNames(resources[IndexOfName(resources, n)])))

\* the ready nodes: not yet emitted, every predecessor emitted
ReadyNodes(resources, emitted) ==
    LET done == {resources[emitted[j]].name : j \in DOMAIN emitted} IN
    {i \in DOMAIN resources :
        /\ \A j \in DOMAIN emitted : emitted[j] # i
        /\ PredecessorNames(resources[i]) \subseteq done}

\* emit the ready node of earliest document position until none is left
RECURSIVE EmitReady(_, _)
EmitReady(resources, emitted) ==
    LET ready == ReadyNodes(resources, emitted) IN
    IF Len(emitted) = Len(resources) THEN Ok(emitted)
    ELSE IF ready = {}
         THEN Err(Validation(<<"Dependency cycle ">> \o CycleParticipants(resources)))
    ELSE EmitReady(resources,
                   Append(emitted, CHOOSE i \in ready : \A j \in ready : i <= j))

\* depends_on::get_resource_invocation_order(config, statement_parser, context):
\* the resources in a topological order of the predecessor edges, the ready
\* node of earliest document position first. The edges are read off the
\* text of the expressions, so the context does not enter the result.
get_resource_invocation_order(config, context) ==
    LET resources == config.resources
        names == {resources[i].name : i \in DOMAIN resources}
        unknown == UNION {PredecessorNames(resources[i]) : i \in DOMAIN resources} \ names
        sorted == EmitReady(resources, <<>>)
    IN IF unknown # {}
       THEN Err(Validation(<<"Unknown dependency ", CHOOSE n \in unknown : TRUE>>))
       ELSE IF sorted.ok
       THEN Ok([j \in DOMAIN sorted.val |-> resources[sorted.val[j]]])
       ELSE sorted

\* the providers that are installed: lower-cased type |-> the type name the
\* provider's own manifest declares
Registered == [t \in {"test/echo", "test/file"} |->
                  IF t = "test/echo" THEN "Test/Echo" ELSE "Test/File"]

\* Discovery::find_resource
find_resource(type_name) ==
    IF type_name \in DOMAIN Registered
    THEN Some([type_name |-> Registered[type_name]])
    ELSE NoneV

\* parameters::Input: the parameters of a parameters file
from_value_Input(value) ==
    IF value.t = "obj" /\ "parameters" \in DOMAIN value.v /\ value.v["parameters"].t = "obj"
    THEN Ok(value.v["parameters"].v)
    ELSE Err(DscError("Json", <<"invalid type">>))

\* the length a length constraint measures
LengthOf(value) == Len(value.v)

\* contraints::check_length
check_length(name, value, constraint) ==
    IF ~constraint.min_length.some /\ ~constraint.max_length.some THEN Ok(TRUE)
    ELSE IF value.t \notin {"str", "arr"}
    THEN Err(Validation(<<"Parameter '", name, "' has a length constraint but is not a string or array">>))
    ELSE IF constraint.min_length.some /\ LengthOf(value) < constraint.min_length.val
    THEN Err(Validation(<<"Parameter '", name, "' is shorter than the minimum length">>))
    ELSE IF constraint.max_length.some /\ LengthOf(value) > constraint.max_length.val
    THEN Err(Validation(<<"Parameter '", name, "' is longer than the maximum length">>))
    ELSE Ok(TRUE)

\* contraints::check_allowed_values
check_allowed_values(name, value, constraint) ==
    IF ~constraint.allowed_values.some THEN Ok(TRUE)
    ELSE IF \E i \in DOMAIN constraint.allowed_values.val :
                constraint.allowed_values.val[i] = value
    THEN Ok(TRUE)
    ELSE Err(Validation(<<"Parameter '", name, "' is not one of the allowed values">>))

\* contraints::check_number_limits
check_number_limits(name, value, constraint) ==
    IF ~constraint.min_value.some /\ ~constraint.max_value.some THEN Ok(TRUE)
    ELSE IF value.t # "int"
    THEN Err(Validation(<<"Parameter '", name, "' has a value constraint but is not an integer">>))
    ELSE IF constraint.min_value.some /\ value.v < constraint.min_value.val
    THEN Err(Validation(<<"Parameter '", name, "' is less than the minimum value">>))
    ELSE IF constraint.max_value.some /\ value.v > constraint.max_value.val
    THEN Err(Validation(<<"Parameter '", name, "' is greater than the maximum value">>))
    ELSE Ok(TRUE)

ProviderError == DscError("Command", <<"provider failed">>)

\* what DscResource::get, set and test may return for an input text: an
\* error, or a payload (the providers of the model report the state they
\* were asked about)
InvokeOutcomes(text) == {Err(ProviderError), Ok([actual_state |-> text])}

\* an instance the export loop accepts: an object without nested arrays
ObjectInstance ==
    JObj([cmd |-> JStr(<<"[", "echo hello", "]">>),
          list |-> JArr(<<JStr(<<"[", "x", "]">>), JStr(<<"y">>)>>),
          p |-> JObj([q |-> JStr(<<"[", "]">>), cmd |-> JBool(TRUE)])])

\* the instances a provider's export may report
InstancePool ==
    { ObjectInstance,
      JObj([list |-> JArr(<<JStr(<<"[", "x", "]">>), JArr(<<>>)>>)]),
      JStr(<<"[", "x", "]">>) }

\* the lists of instances a provider reports: the export loop returns at the
\* first instance it rejects and reads none after it, so a rejected instance
\* is the last of its list
InstanceLists ==
    {q \in SeqsOver(InstancePool, MaxInstances) :
        \A i \in 1..(Len(q) - 1) : q[i] = ObjectInstance}

\* what DscResource::export may return: an error, or its actual_state
ExportOutcomes ==
    {Err(ProviderError)}
    \cup {Ok([actual_state |-> instances]) : instances \in InstanceLists}

\* ------------------------------------------------------------------------
\* The Configurator
\* ------------------------------------------------------------------------
VARIABLES
    config,       \* Configurator.config: the configuration document
    context,      \* Configurator.context
    discovered,   \* the lists handed to discovery.discover_resources by the operation
    calls,        \* the provider calls of the operation, in call order
    engine_log,   \* the texts handed to the expression engine by the operation
    pc,           \* "idle", or "loop" inside the resource loop of an invoke
    op,           \* the running (or last) operation and its arguments
    order,        \* the resources the loop iterates over
    k,            \* position of the loop in order
    result,       \* the aggregate under construction (result.results)
    conf,         \* the configuration synthesized by export (conf.resources)
    ret,          \* what the last operation returned
    walk          \* a property bag under the escape walker, and what it returned

vars == <<key_order, config, context, discovered, calls, engine_log, pc, op, order, k,
          result, conf, ret, walk>>

\* no property bag is being walked on its own
NoWalk == [stage |-> "none"]

\* Context::new
NewContext == [parameters |-> <<>>, resources |-> <<>>]

Methods == {"get", "set", "test", "export"}

ErrorActions == {"Continue", "Stop"}

\* no value yet: the operation has not returned
Running == [running |-> TRUE]

Returned(call, res) == [call |-> call, res |-> res]

\* Configurator::new
New(configs, orders) ==
    /\ key_order \in orders
    /\ config \in configs
    /\ context = NewContext
    /\ discovered = <<>>
    /\ calls = <<>>
    /\ engine_log = <<>>
    /\ pc = "idle"
    /\ op = [method |-> "new"]
    /\ order = <<>>
    /\ k = 0
    /\ result = <<>>
    /\ conf = <<>>
    /\ ret = Returned("new", Ok(<<>>))
    /\ walk = NoWalk

Init == New(ResourceConfigs \cup DuplicateConfigs \cup CyclicConfigs \cup TieConfigs, KeyOrders)

InitParameters == New(ParameterConfigs, {SortedOrder})

\* the order of the lower-cased type names under sort_unstable
TypeOrder == <<"test/echo", "test/file", "test/missing">>

\* required_resources, had dedup been left out
required_resources_sorted(cfg) ==
    LET occurrences(t) == SelectSeq(cfg.resources,
                                    LAMBDA r : to_lowercase(r.resource_type) = t)
        repeated(t) == [i \in DOMAIN occurrences(t) |-> t]
    IN repeated(TypeOrder[1]) \o repeated(TypeOrder[2]) \o repeated(TypeOrder[3])

\* validate_config: the list handed to discover_resources
required_resources(cfg) ==
    SelectSeq(TypeOrder,
              LAMBDA t : \E i \in DOMAIN cfg.resources :
                            to_lowercase(cfg.resources[i].resource_type) = t)

\* find_duplicate_resource_types, had it compared a resource with the one
\* just before it only
find_duplicate_resource_types_adjacent(cfg) ==
    {cfg.resources[j].resource_type : j \in
        {j \in DOMAIN cfg.resources :
            j > 1 /\ cfg.resources[j - 1].resource_type = cfg.resources[j].resource_type}}

\* find_duplicate_resource_types, as the set the HashSet holds
find_duplicate_resource_types(cfg) ==
    {cfg.resources[j].resource_type : j \in
        {j \in DOMAIN cfg.resources :
            \E i \in 1..(j - 1) : cfg.resources[i].resource_type = cfg.resources[j].resource_type}}

\* the orders in which a HashSet or HashMap with these keys may be iterated
Orderings(S) ==
    {q \in SeqsOver(S, Cardinality(S)) :
        Len(q) = Cardinality(S) /\ \A i, j \in DOMAIN q : q[i] = q[j] => i = j}

RECURSIVE join(_)
join(list) ==
    IF list = <<>> THEN <<>>
    ELSE IF Len(list) = 1 THEN list
    ELSE <<Head(list), ",">> \o join(Tail(list))

\* invocation_order, had a failure of the resolver been answered with the
\* document order
invocation_order_unchecked(method, cfg, ctx) ==
    LET sorted == get_resource_invocation_order(cfg, ctx) IN
    IF method = "export" \/ ~sorted.ok THEN Ok(cfg.resources) ELSE sorted

\* invocation_order, had get, set and test iterated in document order
invocation_order_document(method, cfg, ctx) == Ok(cfg.resources)

\* the sequence of resources an invoke iterates over
invocation_order(method, cfg, ctx) ==
    IF method = "export" THEN Ok(cfg.resources)
    ELSE get_resource_invocation_order(cfg, ctx)

\* the JSON text handed to the provider
provider_input(method, resource, properties) ==
    IF method = "export"
    THEN to_string(to_value(resource.properties))
    ELSE to_string(to_value(properties))

\* config_result::ResourceGetResult, ResourceSetResult, ResourceTestResult
ResourceResult(resource, payload) ==
    [name |-> resource.name, resource_type |-> resource.resource_type, result |-> payload]

\* a provider call: who was called with what, and what came back
ProviderCall(method, provider, text, skip_test, outcome) ==
    [method |-> method, provider |-> provider, input |-> text,
     skip_test |-> skip_test, ok |-> outcome.ok, returned |-> outcome]

\* the first lines of invoke_get, invoke_set, invoke_test and invoke_export:
\* validate_config, (export) the duplicate check, and the invocation order
Begin(method, error_action, skip_test) ==
    /\ pc = "idle"
    /\ op' = [method |-> method, error_action |-> error_action, skip_test |-> skip_test]
    /\ discovered' = <<required_resources(config)>>
    /\ calls' = <<>>
    /\ engine_log' = <<>>
    /\ result' = <<>>
    /\ conf' = <<>>
    /\ UNCHANGED <<key_order, walk, config, context>>
    /\ LET duplicates == IF method = "export" THEN find_duplicate_resource_types(config) ELSE {}
           sequence == invocation_order(method, config, context)
       IN IF duplicates # {}
          THEN /\ \E listed \in Orderings(duplicates) :
                    ret' = Returned(method, Err(Validation(
                              <<"Resource(s) ">> \o join(listed) \o <<" specified multiple times">>)))
               /\ pc' = "idle" /\ order' = <<>> /\ k' = 0
          ELSE IF ~sequence.ok
          THEN /\ ret' = Returned(method, sequence)
               /\ pc' = "idle" /\ order' = <<>> /\ k' = 0
          ELSE /\ pc' = "loop" /\ order' = sequence.val /\ k' = 1
               /\ ret' = Returned(method, Running)

invoke_get(error_action) == Begin("get", error_action, FALSE)

invoke_set(skip_test, error_action) == Begin("set", error_action, skip_test)

invoke_test(error_action) == Begin("test", error_action, FALSE)

invoke_export(error_action) == Begin("export", error_action, FALSE)

\* leaving the loop with an error: the aggregate is dropped
Fail(error) ==
    /\ ret' = Returned(op.method, Err(error))
    /\ pc' = "idle"
    /\ result' = <<>>
    /\ conf' = <<>>
    /\ UNCHANGED k

\* Raise, had ErrorAction::Continue been given the meaning "skip the resource"
Raise_continue(error) ==
    IF op.error_action = "Continue"
    THEN /\ k' = k + 1
         /\ UNCHANGED <<ret, pc, result, conf>>
    ELSE Fail(error)

\* a failure inside the loop body (the ? operator and the return Err): it
\* returns from the invoke whatever the error action is
Raise(error) == Fail(error)

\* one iteration of the loop of invoke_get, invoke_set or invoke_test
invoke_resource ==
    /\ pc = "loop"
    /\ op.method \in {"get", "set", "test"}
    /\ k <= Len(order)
    /\ UNCHANGED <<key_order, walk, config, context, discovered, op, order>>
    /\ LET resource == order[k] IN
       \E engine \in Engines(resource.properties), succeeds \in BOOLEAN :
          LET properties == invoke_property_expressions(resource.properties, engine, <<>>)
              dsc_resource == find_resource(to_lowercase(resource.resource_type))
              text == provider_input(op.method, resource, properties.res.val)
              outcome == CHOOSE o \in InvokeOutcomes(text) : o.ok = succeeds
          IN
          /\ engine_log' = engine_log \o properties.passed
          /\ IF ~properties.res.ok
             THEN Raise(properties.res.err) /\ UNCHANGED calls
             ELSE IF ~dsc_resource.some
             THEN Raise(DscError("ResourceNotFound", <<resource.resource_type>>))
                  /\ UNCHANGED calls
             ELSE /\ calls' = Append(calls,
                          ProviderCall(op.method, to_lowercase(resource.resource_type),
                                       text, op.skip_test, outcome))
                  /\ IF ~outcome.ok
                     THEN Raise(outcome.err)
                     ELSE /\ result' = Append(result, ResourceResult(resource, outcome.val))
                          /\ k' = k + 1
                          /\ UNCHANGED <<ret, pc, conf>>

JsonError == DscError("Json", <<"invalid type">>)

\* the loop of add_resource_export_results_to_configuration over the
\* instances of export_result.actual_state, from instance i on
RECURSIVE add_instances(_, _, _, _)
add_instances(type_name, actual_state, i, resources) ==
    IF i > Len(actual_state) THEN Ok(resources)
    ELSE LET instance == actual_state[i]
             props == IF instance.t = "obj" THEN Ok(instance.v) ELSE Err(JsonError)
             properties == IF props.ok THEN escape_property_values(props.val) ELSE props
         IN IF ~properties.ok THEN properties
            ELSE add_instances(type_name, actual_state, i + 1,
                     Append(resources,
                            Resource(<<type_name, "-", ToString(i - 1)>>, type_name,
                                     properties.val, <<>>)))

add_resource_export_results_to_configuration(resource, resources, export_result) ==
    add_instances(resource.type_name, export_result.actual_state, 1, resources)

\* one iteration of the loop of invoke_export
export_resource ==
    /\ pc = "loop"
    /\ op.method = "export"
    /\ k <= Len(order)
    /\ UNCHANGED <<key_order, walk, config, context, discovered, engine_log, op, order>>
    /\ LET resource == order[k]
           dsc_resource == find_resource(to_lowercase(resource.resource_type))
       IN
       IF ~dsc_resource.some
       THEN Raise(DscError("ResourceNotFound", <<resource.resource_type>>))
            /\ UNCHANGED calls
       ELSE \E outcome \in ExportOutcomes :
               /\ calls' = Append(calls,
                       ProviderCall("export", to_lowercase(resource.resource_type),
                                    provider_input("export", resource, resource.properties),
                                    FALSE, outcome))
               /\ IF ~outcome.ok
                  THEN Raise(outcome.err)
                  ELSE LET added == add_resource_export_results_to_configuration(
                                        dsc_resource.val, conf, outcome.val)
                       IN IF ~added.ok
                          THEN Raise(added.err)
                          ELSE /\ conf' = added.val
                               /\ k' = k + 1
                               /\ UNCHANGED <<ret, pc, result>>

\* the end of the loop: Ok(result)
invoke_return ==
    /\ pc = "loop"
    /\ k > Len(order)
    /\ pc' = "idle"
    /\ ret' = Returned(op.method,
                       IF op.method = "export"
                       THEN Ok([result |-> Some(Configuration(NoneV, conf))])
                       ELSE Ok([results |-> result]))
    /\ UNCHANGED <<key_order, walk, config, context, discovered, calls, engine_log, op, order, k,
                   result, conf>>

\* insert, had it kept the value already stored
insert_if_absent(map, name, value) ==
    [n \in DOMAIN map \cup {name} |-> IF n \in DOMAIN map THEN map[n] ELSE value]

\* HashMap::insert
insert(map, name, value) ==
    [n \in DOMAIN map \cup {name} |-> IF n = name THEN value ELSE map[n]]

\* insert_defaults, had it started from an empty map
insert_defaults_only(declared, parameters) ==
    LET defaulted == {n \in DOMAIN declared : declared[n].default_value.some} IN
    [n \in defaulted |-> declared[n].default_value.val]

\* insert_defaults, had it kept the values already stored
insert_defaults_if_absent(declared, parameters) ==
    LET defaulted == {n \in DOMAIN declared : declared[n].default_value.some} IN
    [n \in DOMAIN parameters \cup defaulted |->
        IF n \in DOMAIN parameters THEN parameters[n] ELSE declared[n].default_value.val]

\* set_parameters, first loop: every declared default goes into the context
insert_defaults(declared, parameters) ==
    LET defaulted == {n \in DOMAIN declared : declared[n].default_value.some} IN
    [n \in DOMAIN parameters \cup defaulted |->
        IF n \in defaulted THEN declared[n].default_value.val ELSE parameters[n]]

\* check_type, had the match on the declared type been left out
check_type_unchecked(name, value, constraint) == Ok(TRUE)

\* set_parameters, the match on constraint.parameter_type
check_type(name, value, constraint) ==
    LET data_type == constraint.parameter_type IN
    CASE data_type \in {"string", "secureString"} ->
            IF value.t # "str"
            THEN Err(Validation(<<"Parameter '", name, "' is not a string">>)) ELSE Ok(TRUE)
      [] data_type = "int" ->
            IF value.t # "int"
            THEN Err(Validation(<<"Parameter '", name, "' is not an integer">>)) ELSE Ok(TRUE)
      [] data_type = "bool" ->
            IF value.t # "bool"
            THEN Err(Validation(<<"Parameter '", name, "' is not a boolean">>)) ELSE Ok(TRUE)
      [] data_type = "array" ->
            IF value.t # "arr"
            THEN Err(Validation(<<"Parameter '", name, "' is not an array">>)) ELSE Ok(TRUE)
      [] data_type \in {"object", "secureObject"} ->
            IF value.t # "obj"
            THEN Err(Validation(<<"Parameter '", name, "' is not an object">>)) ELSE Ok(TRUE)

\* set_parameters, the body of the second loop for one (name, value)
check_parameter(name, value, parameters_constraints) ==
    IF name \in DOMAIN parameters_constraints
    THEN LET constraint == parameters_constraints[name]
             length == check_length(name, value, constraint)
             allowed == check_allowed_values(name, value, constraint)
             limits == check_number_limits(name, value, constraint)
         IN IF ~length.ok THEN length
            ELSE IF ~allowed.ok THEN allowed
            ELSE IF ~limits.ok THEN limits
            ELSE check_type(name, value, constraint)
    ELSE Err(Validation(<<"Parameter '", name, "' not defined in configuration">>))

Bound(parameters, res) == [parameters |-> parameters, res |-> res]

\* bind_parameters, had it inserted the input values only when all of them
\* pass
RECURSIVE bind_parameters_atomic(_, _, _, _)
bind_parameters_atomic(names, values, parameters_constraints, parameters) ==
    IF names = <<>> THEN Bound(parameters, Ok(<<>>))
    ELSE LET name == Head(names)
             checked == check_parameter(name, values[name], parameters_constraints)
             rest == bind_parameters_atomic(Tail(names), values, parameters_constraints,
                                            insert(parameters, name, values[name]))
         IN IF ~checked.ok THEN Bound(parameters, checked)
            ELSE IF ~rest.res.ok THEN Bound(parameters, rest.res)
            ELSE rest

\* set_parameters, second loop: the input parameters in the order the
\* HashMap yields them
RECURSIVE bind_parameters(_, _, _, _)
bind_parameters(names, values, parameters_constraints, parameters) ==
    IF names = <<>> THEN Bound(parameters, Ok(<<>>))
    ELSE LET name == Head(names)
             checked == check_parameter(name, values[name], parameters_constraints)
         IN IF ~checked.ok THEN Bound(parameters, checked)
            ELSE bind_parameters(Tail(names), values, parameters_constraints,
                                 insert(parameters, name, values[name]))

NoParametersDefined == Validation(<<"No parameters defined in configuration">>)

\* the arguments of a set_parameters call, and the order in which its
\* HashMap of input parameters was iterated
SetParameters(parameters_input, iteration) ==
    [method |-> "set_parameters", parameters_input |-> parameters_input,
     iteration |-> iteration]

\* Configurator::set_parameters
set_parameters(parameters_input) ==
    /\ pc = "idle"
    /\ discovered' = <<>> /\ calls' = <<>> /\ engine_log' = <<>>
    /\ order' = <<>> /\ k' = 0 /\ result' = <<>> /\ conf' = <<>>
    /\ UNCHANGED <<key_order, walk, config, pc>>
    /\ IF ~config.parameters.some
       THEN /\ UNCHANGED context
            /\ op' = SetParameters(parameters_input, <<>>)
            /\ ret' = Returned("set_parameters",
                               IF ~parameters_input.some THEN Ok(<<>>)
                               ELSE Err(NoParametersDefined))
       ELSE LET parameters == config.parameters.val
                defaults == insert_defaults(parameters, context.parameters)
            IN IF ~parameters_input.some
               THEN /\ context' = [context EXCEPT !.parameters = defaults]
                    /\ op' = SetParameters(parameters_input, <<>>)
                    /\ ret' = Returned("set_parameters", Ok(<<>>))
               ELSE LET parsed == from_value_Input(parameters_input.val) IN
                    IF ~parsed.ok
                    THEN /\ context' = [context EXCEPT !.parameters = defaults]
                         /\ op' = SetParameters(parameters_input, <<>>)
                         /\ ret' = Returned("set_parameters", parsed)
                    ELSE \E iteration \in Orderings(DOMAIN parsed.val) :
                            LET bound == bind_parameters(iteration, parsed.val,
                                                         parameters, defaults) IN
                            /\ context' = [context EXCEPT !.parameters = bound.parameters]
                            /\ op' = SetParameters(parameters_input, iteration)
                            /\ ret' = Returned("set_parameters", bound.res)

Next ==
    \/ \E parameters_input \in Inputs(config) : set_parameters(parameters_input)
    \/ \E error_action \in ErrorActions : invoke_get(error_action)
    \/ \E skip_test \in BOOLEAN, error_action \in ErrorActions : invoke_set(skip_test, error_action)
    \/ \E error_action \in ErrorActions : invoke_test(error_action)
    \/ \E error_action \in ErrorActions : invoke_export(error_action)
    \/ invoke_resource
    \/ export_resource
    \/ invoke_return

Spec == Init /\ [][Next]_vars

\* the same Configurator on the documents that declare parameters
SpecParameters == InitParameters /\ [][Next]_vars

\* ------------------------------------------------------------------------
\* The escape walker on its own
\* ------------------------------------------------------------------------
Texts ==
    { <<"[", "x", "]">>, <<"[", "[", "x", "]">>, <<"[", "]">>, <<"y">>, <<"[", "x">>,
      <<"x", "]">>, <<>> }

Leaves == {JStr(text) : text \in Texts} \cup {JInt(1), JNull}

InnerMaps ==
    {<<>>, [q |-> JArr(<<JStr(<<"[", "x", "]">>)>>)], [q |-> JArr(<<JArr(<<>>)>>)]}
    \cup {[q |-> leaf] : leaf \in Leaves}

Elements ==
    Leaves \cup {JObj(m) : m \in InnerMaps} \cup {JArr(<<>>), JArr(<<JStr(<<"[", "x", "]">>)>>)}

Arrays == {JArr(a) : a \in SeqsOver(Elements, MaxArray)}

Values ==
    Leaves \cup {JObj(m) : m \in InnerMaps} \cup {JObj([p |-> JObj(m)]) : m \in InnerMaps}
    \cup Arrays

\* what a bag of two members holds next to the member that varies
FirstMembers == {JStr(<<"[", "x", "]">>), JStr(<<"y">>), JInt(1)}

\* the property bags the walker is run on
Bags ==
    {<<>>} \cup {[cmd |-> value] : value \in Values}
    \cup {[cmd |-> leaf, list |-> value] : leaf \in FirstMembers, value \in Values}

InitWalker == New({Configuration(NoneV, <<>>)}, KeyOrders)

\* the walker is a function: it touches nothing of the Configurator
ConfiguratorUnchanged ==
    UNCHANGED <<key_order, config, context, discovered, calls, engine_log, pc, op,
                order, k, result, conf, ret>>

\* a property bag is handed to the walker
walk_begin ==
    /\ walk.stage = "none"
    /\ \E properties \in Bags : walk' = [stage |-> "input", properties |-> properties]
    /\ ConfiguratorUnchanged

\* escape_property_values(properties)
walk_escape ==
    /\ walk.stage = "input"
    /\ walk' = [stage |-> "escaped", properties |-> walk.properties,
                output |-> escape_property_values(walk.properties)]
    /\ ConfiguratorUnchanged

\* escape_property_values on what escape_property_values returned
walk_escape_again ==
    /\ walk.stage = "escaped"
    /\ walk.output.ok
    /\ walk' = [stage |-> "twice", properties |-> walk.properties,
                output |-> walk.output,
                second |-> escape_property_values(walk.output.val.val)]
    /\ ConfiguratorUnchanged

\* invoke_property_expressions(Some(properties)), with some engine
walk_evaluate ==
    /\ walk.stage = "input"
    /\ \E engine \in Engines(Some(walk.properties)) :
          LET walked == invoke_property_expressions(Some(walk.properties), engine, <<>>) IN
          walk' = [stage |-> "evaluated", properties |-> walk.properties,
                   engine |-> engine, output |-> walked.res, passed |-> walked.passed]
    /\ ConfiguratorUnchanged

NextWalker == walk_begin \/ walk_escape \/ walk_escape_again \/ walk_evaluate

SpecWalker == InitWalker /\ [][NextWalker]_vars

\* ------------------------------------------------------------------------
\* Properties
\* ------------------------------------------------------------------------
Resolved == get_resource_invocation_order(config, context)

Idle(methods) == pc = "idle" /\ op.method \in methods

AllOk(log) == \A i \in DOMAIN log : log[i].ok

\* C1: once the provider of a resource R has been invoked successfully by
\* get, set or test, the context holds R's payload under R.name (and so it
\* does before any later resource is evaluated).
C1_ResultPublished ==
    op.method \in {"get", "set", "test"} =>
        \A i \in DOMAIN result :
            /\ result[i].name \in DOMAIN context.resources
            /\ context.resources[result[i].name] = result[i].result

\* C2: get, set and test invoke the providers one resource at a time in the
\* resolver's order, and a successful invoke returns one entry per resource,
\* the i-th with the name and type of the i-th resource of that order.
C2_ResolverOrder ==
    (op.method \in {"get", "set", "test"} /\ (pc = "loop" \/ ret.res.ok)) =>
        /\ Resolved.ok
        /\ Len(calls) <= Len(Resolved.val)
        /\ \A i \in DOMAIN calls :
              /\ calls[i].method = op.method
              /\ calls[i].provider = to_lowercase(Resolved.val[i].resource_type)
        /\ pc = "loop" => Len(result) = Len(calls) /\ Len(calls) \in {k - 1, k}
        /\ \A i \in DOMAIN result :
              /\ result[i].name = Resolved.val[i].name
              /\ result[i].resource_type = Resolved.val[i].resource_type
        /\ pc = "idle" =>
              /\ Len(ret.res.val.results) = Len(config.resources)
              /\ Len(calls) = Len(config.resources)
              /\ \A i \in DOMAIN ret.res.val.results :
                    /\ ret.res.val.results[i].name = Resolved.val[i].name
                    /\ ret.res.val.results[i].resource_type = Resolved.val[i].resource_type

\* C2 witness: a get of three resources has returned, in an order that is
\* not the document order
C2_Witness ==
    /\ Idle({"get"}) /\ ret.res.ok
    /\ Len(ret.res.val.results) = 3
    /\ ret.res.val.results[1].name # config.resources[1].name

\* C3: the export calls are made in the resolver's order.
C3_ExportInResolverOrder ==
    (op.method = "export" /\ Resolved.ok) =>
        \A i \in DOMAIN calls :
            calls[i].provider = to_lowercase(Resolved.val[i].resource_type)

\* the texts of a property bag that are bracketed expressions
BracketedTexts(properties) == {s \in StringsOf(to_value(properties)) : IsBracketed(s)}

InLog(text) == \E j \in DOMAIN engine_log : engine_log[j] = text

\* C4: for get, set, test and export the text handed to the provider is the
\* serialization of the properties as the evaluate walker returned them: the
\* walker has run (its bracketed texts went to the engine) and the text is
\* the serialization of one of its results.
C4_EvaluatedInput ==
    \A i \in DOMAIN calls :
        LET resource == order[i] IN
        /\ \A text \in BracketedTexts(resource.properties) : InLog(text)
        /\ \E engine \in Engines(resource.properties) :
              LET walked == invoke_property_expressions(resource.properties, engine, <<>>) IN
              /\ walked.res.ok
              /\ calls[i].input = to_string(to_value(walked.res.val))

\* C5: a failure at the k-th resource ends the invoke with that error and
\* without an aggregate, whatever the error action; the k-1 earlier providers
\* have been called once each, in order, and nothing is called afterwards.
C5_FailureIsFatal ==
    /\ Len(calls) <= Len(order)
    /\ \A i \in DOMAIN calls :
          /\ calls[i].method = op.method
          /\ calls[i].provider = to_lowercase(order[i].resource_type)
          /\ i < Len(calls) => calls[i].ok
    /\ pc = "loop" => AllOk(calls) /\ Len(calls) = k - 1
    /\ (Idle(Methods) /\ ret.res.ok) => AllOk(calls) /\ Len(calls) = Len(order)
    /\ (Idle(Methods) /\ ~ret.res.ok /\ k >= 1) =>
          /\ "val" \notin DOMAIN ret.res
          /\ result = <<>> /\ conf = <<>>
          /\ k <= Len(order)
          /\ \/ /\ Len(calls) = k /\ ~calls[k].ok
                /\ ret.res.err = ProviderError
             \/ /\ Len(calls) = k /\ calls[k].ok
                /\ op.method = "export"
                /\ ret.res.err \in {JsonError, NestedArrays}
             \/ /\ Len(calls) = k - 1
                /\ op.method # "export"
                /\ ret.res.err \in {ExpressionError, NestedArrays}
             \/ /\ Len(calls) = k - 1
                /\ to_lowercase(order[k].resource_type) \notin DOMAIN Registered
                /\ ret.res.err = DscError("ResourceNotFound", <<order[k].resource_type>>)

\* C5 witness: with ErrorAction::Continue the provider of the second of
\* three resources has failed and the set has returned the error
C5_Witness ==
    /\ Idle({"set"}) /\ op.error_action = "Continue"
    /\ ~ret.res.ok /\ ret.res.err = ProviderError
    /\ Len(order) = 3 /\ k = 2 /\ Len(calls) = 2

\* the relation between a value and its escaped form: containers keep their
\* keys and lengths, a bracketed string gains `extra` leading brackets, every
\* other leaf is the same
RECURSIVE EscapedBy(_, _, _)
EscapedBy(extra, in, out) ==
    CASE in.t = "obj" ->
            /\ out.t = "obj"
            /\ DOMAIN out.v = DOMAIN in.v
            /\ \A name \in DOMAIN in.v : EscapedBy(extra, in.v[name], out.v[name])
      [] in.t = "arr" ->
            /\ out.t = "arr"
            /\ Len(out.v) = Len(in.v)
            /\ \A i \in DOMAIN in.v : EscapedBy(extra, in.v[i], out.v[i])
      [] in.t = "str" ->
            IF in.v # <<>> /\ Head(in.v) = "[" /\ in.v[Len(in.v)] = "]"
            THEN out = JStr(extra \o in.v)
            ELSE out = in
      [] OTHER -> out = in

\* C6: escape mode adds exactly one leading '[' to every bracketed string
\* (direct value, nested mapping at any depth, array element) and leaves all
\* other leaves, the keys and the array lengths as they were.
C6_EscapeAddsOneBracket ==
    (walk.stage \in {"escaped", "twice"} /\ walk.output.ok) =>
        /\ walk.output.val.some
        /\ EscapedBy(<<"[">>, JObj(walk.properties), JObj(walk.output.val.val))

\* C6 witness: the instance {cmd: "[x]", list: ["[x]", "y"]} has been escaped
C6_Witness ==
    /\ walk.stage = "escaped"
    /\ walk.properties = [cmd |-> JStr(<<"[", "x", "]">>),
                          list |-> JArr(<<JStr(<<"[", "x", "]">>), JStr(<<"y">>)>>)]
    /\ walk.output = Ok(Some([cmd |-> JStr(<<"[", "[", "x", "]">>),
                              list |-> JArr(<<JStr(<<"[", "[", "x", "]">>), JStr(<<"y">>)>>)]))

RECURSIVE HasNestedArray(_)
HasNestedArray(value) ==
    CASE value.t = "arr" ->
            \E i \in DOMAIN value.v : value.v[i].t = "arr" \/ HasNestedArray(value.v[i])
      [] value.t = "obj" -> \E name \in DOMAIN value.v : HasNestedArray(value.v[name])
      [] OTHER -> FALSE

HasBracketed(value) == \E text \in StringsOf(value) : IsBracketed(text)

\* C7: escape is not idempotent: for a bag without nested arrays that holds
\* a bracketed string, escaping the escaped bag gives a different bag, with
\* one more leading '[' on each such string.
C7_EscapeNotIdempotent ==
    (walk.stage = "twice" /\ ~HasNestedArray(JObj(walk.properties))
                          /\ HasBracketed(JObj(walk.properties))) =>
        /\ walk.second.ok
        /\ walk.second # walk.output
        /\ EscapedBy(<<"[", "[">>, JObj(walk.properties), JObj(walk.second.val.val))

\* C7 witness: a bag with a bracketed string inside an array has been escaped twice
C7_Witness ==
    /\ walk.stage = "twice"
    /\ walk.properties = [cmd |-> JInt(1), list |-> JArr(<<JStr(<<"[", "]">>)>>)]
    /\ walk.second = Ok(Some([cmd |-> JInt(1), list |-> JArr(<<JStr(<<"[", "[", "[", "]">>)>>)]))

\* C8: in evaluate mode a string goes to the expression engine only if it
\* begins with '[' and ends with ']': every text the engine is handed is
\* bracketed.
C8_OnlyBracketedEvaluated ==
    \A j \in DOMAIN engine_log : IsBracketed(engine_log[j])

DeclaredParameters == IF config.parameters.some THEN config.parameters.val ELSE <<>>

AfterSetParameters == pc = "idle" /\ op.method = "set_parameters"

\* the input parameters of the last set_parameters, when its argument is a
\* parameters file
InputParameters ==
    IF op.parameters_input.some /\ from_value_Input(op.parameters_input.val).ok
    THEN Some(from_value_Input(op.parameters_input.val).val)
    ELSE NoneV

PassesChecks(name, value, constraint) ==
    /\ check_length(name, value, constraint).ok
    /\ check_allowed_values(name, value, constraint).ok
    /\ check_number_limits(name, value, constraint).ok
    /\ check_type(name, value, constraint).ok

\* C9: set_parameters with an input: an input name without a declaration
\* makes the call fail with a Validation error; when every input name is
\* declared and every value passes the constraint and type checks, the call
\* succeeds, every input value is the context value of its parameter, and
\* every declared default of a parameter not in the input is in the context.
C9_InputsBound ==
    (AfterSetParameters /\ InputParameters.some) =>
        LET values == InputParameters.val
            declared == DeclaredParameters
        IN
        /\ (\E name \in DOMAIN values : name \notin DOMAIN declared) =>
              ~ret.res.ok /\ ret.res.err.kind = "Validation"
        /\ (/\ config.parameters.some
            /\ \A name \in DOMAIN values :
                  /\ name \in DOMAIN declared
                  /\ PassesChecks(name, values[name], declared[name])) =>
              /\ ret.res.ok
              /\ \A name \in DOMAIN values :
                    /\ name \in DOMAIN context.parameters
                    /\ context.parameters[name] = values[name]
              /\ \A name \in DOMAIN declared \ DOMAIN values :
                    declared[name].default_value.some =>
                       /\ name \in DOMAIN context.parameters
                       /\ context.parameters[name] = declared[name].default_value.val

\* C9 witness: input {mode: "b", count: 5} has been bound, "b" replacing the
\* default "a"
C9_Witness ==
    /\ AfterSetParameters /\ ret.res.ok
    /\ op.parameters_input =
          Some(JObj([parameters |-> JObj([mode |-> JStr(<<"b">>), count |-> JInt(5)])]))
    /\ context.parameters = [mode |-> JStr(<<"b">>), count |-> JInt(5)]

\* C10: set_parameters without input or without declarations: neither ->
\* success, context unchanged; no input but declarations -> success and every
\* declared default is the context value, whatever was stored before; input
\* but no declarations -> Validation("No parameters defined in
\* configuration"), context unchanged.
C10_AbsentInputOrDeclarations ==
    [][(pc = "idle" /\ op'.method = "set_parameters") =>
          /\ (~config.parameters.some /\ ~op'.parameters_input.some) =>
                ret'.res.ok /\ context' = context
          /\ (config.parameters.some /\ ~op'.parameters_input.some) =>
                /\ ret'.res.ok
                /\ \A name \in DOMAIN DeclaredParameters :
                      DeclaredParameters[name].default_value.some =>
                         /\ name \in DOMAIN context'.parameters
                         /\ context'.parameters[name] =
                               DeclaredParameters[name].default_value.val
          /\ (~config.parameters.some /\ op'.parameters_input.some) =>
                /\ ~ret'.res.ok
                /\ ret'.res.err =
                      DscError("Validation", <<"No parameters defined in configuration">>)
                /\ context' = context]_vars

\* C10 witness: an earlier call stored mode = "b" and count = 5; a call
\* without input has put the default "a" back
C10_Witness ==
    /\ AfterSetParameters /\ ret.res.ok
    /\ ~op.parameters_input.some
    /\ context.parameters = [mode |-> JStr(<<"a">>), count |-> JInt(5)]

\* the JSON shape a declared type asks for
ShapeMatches(data_type, value) ==
    CASE data_type \in {"string", "secureString"} -> value.t = "str"
      [] data_type = "int" -> value.t = "int"
      [] data_type = "bool" -> value.t = "bool"
      [] data_type = "array" -> value.t = "arr"
      [] data_type \in {"object", "secureObject"} -> value.t = "obj"

\* the input names that cannot be bound: not declared, or failing a check
Offending(values, declared) ==
    {n \in DOMAIN values :
        n \notin DOMAIN declared \/ ~PassesChecks(n, values[n], declared[n])}

\* a set_parameters step on a document with declarations and with an input
\* that is a parameters file
BindingStep ==
    /\ pc = "idle" /\ op'.method = "set_parameters"
    /\ config.parameters.some
    /\ op'.parameters_input.some
    /\ from_value_Input(op'.parameters_input.val).ok

\* C11: when an input value does not have the JSON shape of its declared
\* type, set_parameters fails with a Validation error that names an input
\* parameter that cannot be bound (the mismatched one when it is the only
\* such parameter), and the mismatched value is not inserted: the context
\* holds for that name what the defaults loop left. The checks run in the
\* order length, allowedValues, numeric limits, type: the error is that of
\* the first check the value fails.
C11_TypeEnforced ==
    [][BindingStep =>
          LET values == from_value_Input(op'.parameters_input.val).val
              declared == config.parameters.val
              defaults == insert_defaults(declared, context.parameters)
              offending == Offending(values, declared)
          IN \A n \in DOMAIN values \cap DOMAIN declared :
                ~ShapeMatches(declared[n].parameter_type, values[n]) =>
                   LET length == check_length(n, values[n], declared[n])
                       allowed == check_allowed_values(n, values[n], declared[n])
                       limits == check_number_limits(n, values[n], declared[n])
                       type == check_type(n, values[n], declared[n])
                   IN
                   /\ ~ret'.res.ok
                   /\ ret'.res.err.kind = "Validation"
                   /\ ret'.res.err.msg[2] \in offending
                   /\ n \in DOMAIN context'.parameters <=> n \in DOMAIN defaults
                   /\ n \in DOMAIN defaults => context'.parameters[n] = defaults[n]
                   /\ offending = {n} =>
                         ret'.res = IF ~length.ok THEN length
                                    ELSE IF ~allowed.ok THEN allowed
                                    ELSE IF ~limits.ok THEN limits
                                    ELSE type]_vars

\* C11 witness: input {list: "b"} for the array parameter `list` passed the
\* length check (one character, maxLength 1) and was refused by the type
\* check; the context holds the declared default []
C11_Witness ==
    /\ AfterSetParameters
    /\ op.parameters_input = Some(JObj([parameters |-> JObj([list |-> JStr(<<"b">>)])]))
    /\ ret.res = Err(Validation(<<"Parameter '", "list", "' is not an array">>))
    /\ context.parameters = [list |-> JArr(<<>>)]

\* C12: set_parameters is idempotent: a call that repeats the input of the
\* set_parameters call just before it returns what that call returned and
\* leaves context.parameters as that call left it.
C12_Idempotent ==
    [][(/\ AfterSetParameters
        /\ op'.method = "set_parameters"
        /\ op'.parameters_input = op.parameters_input) =>
          /\ ret' = ret
          /\ context'.parameters = context.parameters]_vars

\* the type strings that more than one resource of the document carries
RepeatedTypes ==
    {config.resources[i].resource_type : i \in
        {i \in DOMAIN config.resources :
            \E j \in DOMAIN config.resources :
                j # i /\ config.resources[j].resource_type = config.resources[i].resource_type}}

\* C13: invoke_export on a document in which some type string occurs on more
\* than one resource returns Validation("Resource(s) <comma-list> specified
\* multiple times"), the list naming each such type once, and no provider
\* export has been called; on a document with pairwise distinct type strings
\* invoke_export never returns a Validation error.
C13_DuplicatesRejected ==
    op.method = "export" =>
        /\ RepeatedTypes # {} =>
              /\ pc = "idle"
              /\ calls = <<>> /\ conf = <<>>
              /\ ~ret.res.ok
              /\ ret.res.err.kind = "Validation"
              /\ \E listed \in Orderings(RepeatedTypes) :
                    ret.res.err.msg =
                       <<"Resource(s) ">> \o join(listed) \o <<" specified multiple times">>
        /\ RepeatedTypes = {} =>
              \/ pc = "loop"
              \/ ret.res.ok
              \/ ret.res.err.kind # "Validation"

\* C13 witness: the export of a document with Test/Echo and Test/File twice
\* each has returned the error that lists both, without a provider call
C13_Witness ==
    /\ Idle({"export"}) /\ calls = <<>>
    /\ Len(config.resources) = 4
    /\ ret.res = Err(Validation(<<"Resource(s) ", "Test/File", ",", "Test/Echo",
                                  " specified multiple times">>))

\* the resources the claim expects for the instances of one provider
\* export: the type of the document's resource, the name "<type>-<i>", the
\* escaped instance
RECURSIVE ExpectedInstances(_, _, _)
ExpectedInstances(resource, actual_state, i) ==
    IF i > Len(actual_state) THEN <<>>
    ELSE <<Resource(<<resource.resource_type, "-", ToString(i - 1)>>, resource.resource_type,
                    escape_property_values(actual_state[i].v).val, <<>>)>>
         \o ExpectedInstances(resource, actual_state, i + 1)

\* ... for the first n resources of the export loop
RECURSIVE ExpectedExport(_)
ExpectedExport(n) ==
    IF n = 0 THEN <<>>
    ELSE ExpectedExport(n - 1)
         \o ExpectedInstances(order[n], calls[n].returned.val.actual_state, 1)

\* C14: while invoke_export runs, the synthesized configuration holds, for
\* every resource exported so far and every instance i of its actual_state,
\* one resource with the document's type string, the name "<type>-<i>" and
\* the escaped instance, in resource order and then instance order.
C14_ExportSynthesis ==
    (op.method = "export" /\ pc = "loop") => conf = ExpectedExport(k - 1)

\* C15: every invoke_get, invoke_set, invoke_test and invoke_export hands
\* discovery one list, at its start: the list holds the lower-cased type of
\* every resource of the document, each once; provider calls are made only
\* after it and the operation does not call discovery again; every invoke on
\* the same document hands over the same list.
C15_DiscoverOnce ==
    [][/\ op'.method \in Methods =>
             /\ Len(discovered') = 1
             /\ LET list == discovered'[1] IN
                /\ \A i, j \in DOMAIN list : list[i] = list[j] => i = j
                /\ {list[i] : i \in DOMAIN list} =
                      {to_lowercase(config.resources[i].resource_type) :
                          i \in DOMAIN config.resources}
       /\ calls' # <<>> => Len(discovered) = 1 /\ discovered' = discovered
       /\ (op.method \in Methods /\ op'.method \in Methods) => discovered' = discovered
      ]_vars

\* C15 witness: a get on a document with the types Test/Echo, Test/File and
\* test/echo has called its three providers after one discovery of two types
C15_Witness ==
    /\ op.method = "get" /\ Len(calls) = 3
    /\ {config.resources[i].resource_type : i \in DOMAIN config.resources} =
          {"Test/Echo", "Test/File", "test/echo"}
    /\ discovered = <<(<<"test/echo", "test/file">>)>>

\* the dependency graph of the document: the names a resource depends on,
\* by dependsOn and by reference(..)
ResourceNames == {config.resources[i].name : i \in DOMAIN config.resources}

Named(name) == config.resources[IndexOfName(config.resources, name)]

DependsOn(resource) ==
    {resource.depends_on[i] : i \in DOMAIN resource.depends_on}
    \cup ReferencedNames(resource.properties)

\* the names reachable from a set of names along the edges
RECURSIVE Closure(_)
Closure(names) ==
    LET next == names \cup UNION {DependsOn(Named(n)) : n \in names \cap ResourceNames} IN
    IF next = names THEN names ELSE Closure(next)

Ancestors(resource) == Closure(DependsOn(resource))

UnknownTarget ==
    \E i \in DOMAIN config.resources : ~(DependsOn(config.resources[i]) \subseteq ResourceNames)

Cyclic ==
    \E i \in DOMAIN config.resources :
        config.resources[i].name \in Ancestors(config.resources[i])

ValidGraph == ~UnknownTarget /\ ~Cyclic

GetSetTest == {"get", "set", "test"}

NamesOf(resources) == [i \in DOMAIN resources |-> resources[i].name]

\* C16: on a document whose dependency graph is acyclic and names only
\* existing resources, the order get, set and test iterate over is a
\* permutation of the resources with every predecessor before its
\* dependant; ties go to the earlier document position: at every place of
\* the order stands the resource of earliest document position among those
\* not yet placed whose predecessors are all placed; a later get, set or
\* test uses the same order; [A dependsOn B, B, C dependsOn A and B] gives
\* B, A, C.
C16_TopologicalOrder ==
    [][(op'.method \in GetSetTest /\ ValidGraph) =>
          LET n == Len(config.resources)
              position(resource) == IndexOfName(config.resources, resource.name)
              placed(j) == {order'[i].name : i \in 1..(j - 1)}
          IN
          /\ Len(order') = n
          /\ \A i \in 1..n : \E j \in 1..n : order'[j] = config.resources[i]
          /\ \A j \in 1..n : DependsOn(order'[j]) \subseteq placed(j)
          /\ \A j \in 1..n : \A d \in 1..n :
                (/\ config.resources[d].name \notin placed(j)
                 /\ DependsOn(config.resources[d]) \subseteq placed(j)) =>
                   position(order'[j]) <= d
          /\ op.method \in GetSetTest => order' = order
          /\ (/\ NamesOf(config.resources) = <<"A", "B", "C">>
              /\ config.resources[1].depends_on = <<"B">>
              /\ config.resources[3].depends_on = <<"A", "B">>) =>
                NamesOf(order') = <<"B", "A", "C">>]_vars

\* C16 witness: a test of [A dependsOn B, D, B] has returned after calling
\* the providers of D, B and A: of the two resources ready at the start the
\* one of earlier document position went first, and A after its predecessor
C16_Witness ==
    /\ Idle({"test"}) /\ ret.res.ok
    /\ NamesOf(config.resources) = <<"A", "D", "B">>
    /\ NamesOf(order) = <<"D", "B", "A">>
    /\ Len(calls) = 3

\* C17: on a document with a dependency cycle (a resource depending on
\* itself included) or with a dependency on a name no resource has, get,
\* set and test return a Validation error and call no provider.
C17_InvalidGraphRejected ==
    (op.method \in GetSetTest /\ ~ValidGraph) =>
        /\ pc = "idle"
        /\ ~ret.res.ok
        /\ ret.res.err.kind = "Validation"
        /\ calls = <<>> /\ result = <<>>

\* C17 witness: a set on the document [B, U dependsOn B and W, V dependsOn
\* U, W dependsOn V] has returned the error without calling B's provider
C17_Witness ==
    /\ Idle({"set"}) /\ ~ret.res.ok /\ calls = <<>>
    /\ NamesOf(config.resources) = <<"B", "U", "V", "W">>
    /\ Cyclic /\ ~UnknownTarget

\* C18 as stated: in both modes a bag with an array inside an array makes
\* the walk return the Parser error "Nested arrays not supported".
C18_NestedArraysParserError ==
    (walk.stage \in {"escaped", "evaluated"} /\ HasNestedArray(JObj(walk.properties))) =>
        walk.output = Err(NestedArrays)

\* C18 (amended): in both modes an array that directly contains an array,
\* at whatever depth of mappings, makes the walk fail and return no
\* mapping; the error is the Parser error "Nested arrays not supported",
\* or, in evaluate mode, the error of the expression the walk evaluated
\* last before it reached that array. A bag without such an array never
\* gives the Parser error.
C18_NestedArraysRejected ==
    walk.stage \in {"escaped", "evaluated"} =>
        /\ HasNestedArray(JObj(walk.properties)) =>
              /\ ~walk.output.ok
              /\ "val" \notin DOMAIN walk.output
              /\ \/ walk.output.err = NestedArrays
                 \/ /\ walk.stage = "evaluated"
                    /\ walk.passed # <<>>
                    /\ walk.output = walk.engine[walk.passed[Len(walk.passed)]]
        /\ ~HasNestedArray(JObj(walk.properties)) =>
              (walk.output.ok \/ walk.output.err # NestedArrays)

\* C18 witness: the evaluation of {cmd: 1, list: {p: {q: [[]]}}} has
\* failed with the Parser error at an array two mappings deep
C18_Witness ==
    /\ walk.stage = "evaluated"
    /\ walk.properties = [cmd |-> JInt(1),
                          list |-> JObj([p |-> JObj([q |-> JArr(<<JArr(<<>>)>>)])])]
    /\ walk.output = Err(NestedArrays)

\* C19: the context of a new Configurator is empty, and no step of
\* set_parameters or of an invoke, successful or failing, removes a key
\* from context.parameters or from the context's resource results.
C19_ContextGrows ==
    [][/\ op.method = "new" => context = NewContext
       /\ DOMAIN context.parameters \subseteq DOMAIN context'.parameters
       /\ DOMAIN context.resources \subseteq DOMAIN context'.resources]_vars

\* C19 witness: count was bound by an earlier call; a later set_parameters
\* has failed on an undeclared name and the context still holds count,
\* beside the default of mode
C19_Witness ==
    /\ AfterSetParameters /\ ~ret.res.ok
    /\ op.parameters_input = Some(JObj([parameters |-> JObj([zz |-> JInt(5)])]))
    /\ context.parameters = [mode |-> JStr(<<"a">>), count |-> JInt(5)]

\* a map with the values of some names laid over it
Overlaid(map, values, names) ==
    [n \in DOMAIN map \cup names |-> IF n \in names THEN values[n] ELSE map[n]]

\* C20: a set_parameters call that fails on an input parameter is not
\* atomic: it returns the error of the first input parameter, in the order
\* the input is iterated, that is undeclared or fails a check; the context
\* then holds every declared default (in place of what earlier calls
\* stored), overlaid with the input values iterated before the failing one;
\* the failing value is not inserted. In every call, failing or not, a
\* value of the input is inserted only if its name is declared and it passes
\* the three constraint checks and the type check of its declaration.
C20_NotAtomic ==
    [][BindingStep =>
          LET values == from_value_Input(op'.parameters_input.val).val
              declared == config.parameters.val
              defaults == insert_defaults(declared, context.parameters)
              offending == Offending(values, declared)
              iteration == op'.iteration
              inserted == {n \in DOMAIN values :
                              /\ n \in DOMAIN context'.parameters
                              /\ context'.parameters[n] = values[n]
                              /\ ~(n \in DOMAIN defaults /\ defaults[n] = values[n])}
          IN
          /\ inserted \cap offending = {}
          /\ ~ret'.res.ok =>
                \E m \in DOMAIN iteration :
                   LET failing == iteration[m]
                       before == {iteration[i] : i \in 1..(m - 1)}
                   IN
                   /\ failing \in offending
                   /\ before \cap offending = {}
                   /\ ret'.res.err.kind = "Validation"
                   /\ ret'.res.err.msg[2] = failing
                   /\ context'.parameters = Overlaid(defaults, values, before)]_vars

\* C20 witness: an earlier call bound mode = "b" and count = 5; the call
\* with {mode: 5, count: 5}, iterated count first, has failed on mode: mode
\* is back at its default "a" and count holds the validated input value
C20_Witness ==
    /\ AfterSetParameters /\ ~ret.res.ok
    /\ op.parameters_input =
          Some(JObj([parameters |-> JObj([mode |-> JInt(5), count |-> JInt(5)])]))
    /\ op.iteration = <<"count", "mode">>
    /\ context.parameters = [mode |-> JStr(<<"a">>), count |-> JInt(5)]

\* C21: whenever invoke_export has succeeded, the names of the resources of
\* the synthesized configuration are pairwise distinct.
C21_ExportNamesDistinct ==
    (Idle({"export"}) /\ ret.res.ok) =>
        LET resources == ret.res.val.result.val.resources IN
        \A i, j \in DOMAIN resources : resources[i].name = resources[j].name => i = j

====
